---- MODULE Spec2Model ----
(***************************************************************************)
(* Streaming session manager of homebridge-camera-ffmpeg                   *)
(* (src/src/streamingDelegate.ts, class StreamingDelegate).                *)
(*                                                                         *)
(* Node runs every handler to completion between suspension points, so     *)
(* each synchronous handler (handleStreamRequest, the SHUTDOWN listener,   *)
(* a child's exit listener) is one action, and prepareStream is one action *)
(* per stretch of code between two awaits.                                 *)
(*                                                                         *)
(* Spec is the session life cycle.  SpecCommands applies the functions     *)
(* that compute what is handed to the transcoder (determineResolution and  *)
(* the command line of startStream) to inputs drawn from bounded sets, and *)
(* runs the still-image capture of handleSnapshotRequest.                  *)
(***************************************************************************)
EXTENDS Integers, Sequences, FiniteSets, TLC

\* ---- bounds ------------------------------------------------------------
MaxSessions == 2   \* distinct session identifiers
MaxPort     == 2   \* ports the operating system can hand out
MaxSetups   == 2   \* setup requests (prepareStream calls) in one run
MaxThrows   == 1   \* times FfmpegProcess.stop() raises in one run
MaxChunks   == 2   \* 'data' events of one still-image capture

SessionIDs == 1..MaxSessions
Ports      == 1..MaxPort

VARIABLES
  interfaceName,     \* this.interfaceName ("" when not configured)
  pendingSessions,   \* Record<string, SessionInfo>: function on its keys
  ongoingSessions,   \* Record<string, FfmpegProcess>: <<key, proc>> in insertion order
  procs,             \* every FfmpegProcess constructed so far, by creation index
  setups,            \* prepareStream calls suspended at an await
  setupCount,        \* prepareStream calls made so far
  lockedYoung,       \* get-port: ports handed out in the current interval
  lockedOld,         \* get-port: ports handed out in the previous interval
  throwCount,        \* number of times stop() has raised
  last,              \* the handler that ran last and what it did
  call,              \* SpecCommands: the function applied last, its inputs and result
  snapshot           \* SpecCommands: the still-image capture in progress

vars == <<interfaceName, pendingSessions, ongoingSessions, procs, setups,
          setupCount, lockedYoung, lockedOld, throwCount, last, call, snapshot>>

\* ---- JavaScript objects used as string-keyed tables ---------------------
\* An object keeps its keys in insertion order; for-in walks them in it.
Keys(m) == [i \in 1..Len(m) |-> m[i][1]]

Has(m, k) == \E i \in 1..Len(m) : m[i][1] = k

Get(m, k) == m[CHOOSE i \in 1..Len(m) : m[i][1] = k][2]

Put(m, k, v) ==
  IF Has(m, k)
    THEN [i \in 1..Len(m) |-> IF m[i][1] = k THEN <<k, v>> ELSE m[i]]
    ELSE Append(m, <<k, v>>)

Del(m, k) == SelectSeq(m, LAMBDA e : e[1] # k)

KeySet(m) == {m[i][1] : i \in 1..Len(m)}

\* ---- the last handler's outcome ----------------------------------------
\* kind: NONE, AWAIT, TIMER, SETUP, START, RECONFIGURE, STOP, SHUTDOWN, EXIT.
\* id: the session identifier of the request; wasPending: it had a pending
\* entry when the handler began; threw: an exception left the handler;
\* targets: ongoing entries when the handler began; stopped, failed: stop()
\* calls the handler made, and how many of them raised; created: processes
\* constructed; callbacks: times the request's callback was invoked;
\* rejected: the promise of prepareStream rejected; attempts: getIpAddress
\* calls made; address: the address put in the setup response.
NoLast ==
  [kind |-> "NONE", id |-> 0, wasPending |-> FALSE, threw |-> FALSE,
   targets |-> 0, stopped |-> 0, failed |-> 0,
   created |-> 0, callbacks |-> 0, rejected |-> FALSE,
   attempts |-> 0, address |-> ""]

Await == [NoLast EXCEPT !.kind = "AWAIT"]

\* No function has been applied; no still image has been requested.
NoCall == [fn |-> "none"]

NoSnapshot ==
  [pc |-> "idle", fcmd |-> <<>>, imageBuffer |-> <<>>, errored |-> FALSE,
   exitCode |-> 0, callbacks |-> 0, result |-> "none", image |-> <<>>]

\* ---- FfmpegProcess (./ffmpeg, not part of the sources at hand) ----------
\* new FfmpegProcess(name, sessionID, processor, fcmd, log, returnPort, ...):
\* opens the readiness socket on returnPort and spawns the child.
NewFfmpegProcess(sessionID, returnPort) ==
  [session |-> sessionID, returnPort |-> returnPort,
   state |-> "running", stopCalls |-> 0]

\* FfmpegProcess.stop(): asks the child to terminate.  A child that has
\* already exited stays exited.  When the call raises nothing was signalled.
FfmpegStop(ps, p, raises) ==
  [ps EXCEPT ![p] =
     [@ EXCEPT !.stopCalls = @ + 1,
               !.state = IF raises \/ @ # "running" THEN @ ELSE "stopping"]]

\* ---- stopStream ---------------------------------------------------------
\* st = [ongoing, procs, stopped, failed, threw]; stopped and failed count
\* the stop() calls made and those that raised; raises says whether the
\* stop() this call makes raises.  The try block runs stop(), then the
\* delete, then the log; an exception skips the rest of the block and is
\* caught, so nothing propagates to the caller.
\* stopStream without its try/catch: an exception of stop() leaves the call.
stopStreamUncaught(st, sessionId, raises) ==
  IF Has(st.ongoing, sessionId)
    THEN LET p == Get(st.ongoing, sessionId) IN
         [ongoing |-> IF raises THEN st.ongoing ELSE Del(st.ongoing, sessionId),
          procs   |-> FfmpegStop(st.procs, p, raises),
          stopped |-> st.stopped + 1,
          failed  |-> IF raises THEN st.failed + 1 ELSE st.failed,
          threw   |-> raises]
    ELSE [st EXCEPT !.ongoing = Del(st.ongoing, sessionId), !.threw = FALSE]

stopStream(st, sessionId, raises) ==
  IF Has(st.ongoing, sessionId)
    THEN LET p == Get(st.ongoing, sessionId) IN
         [ongoing |-> IF raises THEN st.ongoing ELSE Del(st.ongoing, sessionId),
          procs   |-> FfmpegStop(st.procs, p, raises),
          stopped |-> st.stopped + 1,
          failed  |-> IF raises THEN st.failed + 1 ELSE st.failed,
          threw   |-> FALSE]
    ELSE [st EXCEPT !.ongoing = Del(st.ongoing, sessionId), !.threw = FALSE]

StopState == [ongoing |-> ongoingSessions, procs |-> procs,
              stopped |-> 0, failed |-> 0, threw |-> FALSE]

\* ---- the APIEvent.SHUTDOWN listener -------------------------------------
\* for (const session in this.ongoingSessions) this.stopStream(session);
\* for-in visits the keys present at loop entry, in order, skipping a key
\* deleted before its turn; an exception leaving stopStream ends the loop.
RECURSIVE ShutdownLoop(_, _, _)
ShutdownLoop(keys, st, raising) ==
  IF keys = <<>> \/ st.threw THEN st
  ELSE IF ~Has(st.ongoing, Head(keys))
    THEN ShutdownLoop(Tail(keys), st, raising)
    ELSE ShutdownLoop(Tail(keys),
                      stopStream(st, Head(keys), Head(keys) \in raising),
                      raising)

\* ---- the host's network interfaces --------------------------------------
\* What os.networkInterfaces() and networkInterfaceDefault() answer at the
\* moment of one getIpAddress call.
Info(internal, family, address) ==
  [internal |-> internal, family |-> family, address |-> address]

EnvBothUp ==
  [default |-> "eth0",
   interfaces |->
     ("eth0" :> <<Info(TRUE, "IPv4", "127.0.0.1"),
                  Info(FALSE, "IPv4", "192.168.1.10"),
                  Info(FALSE, "IPv6", "fe80::10")>>) @@
     ("wlan0" :> <<Info(FALSE, "IPv6", "fe80::20"),
                   Info(FALSE, "IPv4", "192.168.2.20")>>)]

EnvWlanGone ==
  [default |-> "eth0",
   interfaces |-> ("eth0" :> <<Info(FALSE, "IPv6", "fe80::10")>>)]

EnvNoExternal ==
  [default |-> "eth0",
   interfaces |->
     ("eth0" :> <<>>) @@
     ("wlan0" :> <<Info(TRUE, "IPv4", "127.0.0.1")>>)]

EnvNoDefault ==
  [default |-> "",
   interfaces |-> ("wlan0" :> <<Info(FALSE, "IPv4", "192.168.2.20")>>)]

NetEnvs == {EnvBothUp, EnvWlanGone, EnvNoExternal, EnvNoDefault}

IsExternal(info) == ~info.internal

\* ---- getIpAddress -------------------------------------------------------
\* Answers [ok, address]; ok = FALSE stands for the Error thrown at the end.
getIpAddress(addressVersion, ifName, env) ==
  LET name == IF ifName = "" THEN env.default ELSE ifName
      externalInfo ==
        IF name \in DOMAIN env.interfaces
          THEN SelectSeq(env.interfaces[name], IsExternal)
          ELSE <<>>
      preferredFamily == IF addressVersion = "ipv6" THEN "IPv6" ELSE "IPv4"
      matching == SelectSeq(externalInfo, LAMBDA info : info.family = preferredFamily)
  IN  IF matching # <<>> THEN [ok |-> TRUE, address |-> matching[1].address]
      ELSE IF externalInfo # <<>> THEN [ok |-> TRUE, address |-> externalInfo[1].address]
      ELSE [ok |-> FALSE, address |-> ""]

\* ---- getPort (package get-port) -----------------------------------------
\* A port is available when no socket is bound to it and get-port has not
\* handed it out in the current or the previous interval.  The only socket
\* this program binds is a live FfmpegProcess's readiness socket.
BoundPorts ==
  {procs[p].returnPort : p \in {q \in 1..Len(procs) : procs[q].state # "exited"}}

AvailablePorts == Ports \ (BoundPorts \cup lockedYoung \cup lockedOld)

\* get-port's interval timer: the young locks age, the old ones are dropped.
\* It is a timer of the event loop and may fire wherever a handler is not
\* running, also while a prepareStream is suspended at a getPort().
ReleaseOldLockedPorts ==
  /\ lockedYoung # {} \/ lockedOld # {}
  /\ lockedOld' = lockedYoung
  /\ lockedYoung' = {}
  /\ last' = [NoLast EXCEPT !.kind = "TIMER"]
  /\ UNCHANGED <<call, snapshot, interfaceName, setupCount, pendingSessions, ongoingSessions, procs,
                 setups, throwCount>>

\* ---- prepareStream ------------------------------------------------------
RemoveAt(s, i) == [j \in 1..(Len(s) - 1) |-> IF j < i THEN s[j] ELSE s[j + 1]]

SetKey(f, k, v) == [x \in DOMAIN f \cup {k} |-> IF x = k THEN v ELSE f[x]]

DelKey(f, k) == [x \in DOMAIN f \ {k} |-> f[x]]

SetupLast(r, callbacks, address) ==
  [NoLast EXCEPT !.kind = "SETUP", !.id = r.sessionID,
                 !.callbacks = callbacks, !.rejected = (callbacks = 0),
                 !.attempts = r.attempts, !.address = address]

\* The call itself: runs up to the first await getPort().
prepareStream(sessionID) ==
  /\ setupCount < MaxSetups
  /\ setupCount' = setupCount + 1
  /\ setups' = Append(setups,
       [sessionID |-> sessionID, addressVersion |-> "",
        pc |-> "awaitVideoPort", videoReturnPort |-> 0,
        audioReturnPort |-> 0, attempts |-> 0])
  /\ last' = Await
  /\ UNCHANGED <<call, snapshot, interfaceName, pendingSessions, ongoingSessions, procs,
                 lockedYoung, lockedOld, throwCount>>

\* The promise of prepareStream rejects: nothing after the failing await
\* runs, so neither the table nor the callback is touched.
Reject(i) ==
  /\ setups' = RemoveAt(setups, i)
  /\ last' = SetupLast(setups[i], 0, "")
  /\ UNCHANGED <<call, snapshot, interfaceName, setupCount, pendingSessions, ongoingSessions, procs,
                 lockedYoung, lockedOld, throwCount>>

\* const videoReturnPort = await getPort();
VideoPortDone(i) ==
  /\ i \in 1..Len(setups)
  /\ setups[i].pc = "awaitVideoPort"
  /\ IF AvailablePorts = {}
       THEN Reject(i)
       ELSE \E p \in AvailablePorts :
              /\ lockedYoung' = lockedYoung \cup {p}
              /\ setups' = [setups EXCEPT ![i].videoReturnPort = p,
                                          ![i].pc = "awaitAudioPort"]
              /\ last' = Await
              /\ UNCHANGED <<call, snapshot, interfaceName, setupCount, pendingSessions, ongoingSessions,
                             procs, lockedOld, throwCount>>

\* const audioReturnPort = await getPort(); then sessionInfo is built and
\* getIpAddress(request.addressVersion, this.interfaceName) is awaited.
\* request.addressVersion is read here for the first time, so the request's
\* value is drawn here.
AudioPortDone(i) ==
  /\ i \in 1..Len(setups)
  /\ setups[i].pc = "awaitAudioPort"
  /\ IF AvailablePorts = {}
       THEN Reject(i)
       ELSE \E p \in AvailablePorts, v \in {"ipv4", "ipv6"} :
              /\ lockedYoung' = lockedYoung \cup {p}
              /\ setups' = [setups EXCEPT ![i].audioReturnPort = p,
                                          ![i].addressVersion = v,
                                          ![i].pc = "awaitAddress",
                                          ![i].attempts = 1]
              /\ last' = Await
              /\ UNCHANGED <<call, snapshot, interfaceName, setupCount, pendingSessions, ongoingSessions,
                             procs, lockedOld, throwCount>>

SessionInfoOf(r) ==
  [videoReturnPort |-> r.videoReturnPort, audioReturnPort |-> r.audioReturnPort]

\* this.pendingSessions[request.sessionID] = sessionInfo; callback(undefined, response);
Respond(i, address) ==
  /\ pendingSessions' = SetKey(pendingSessions, setups[i].sessionID, SessionInfoOf(setups[i]))
  /\ setups' = RemoveAt(setups, i)
  /\ last' = SetupLast(setups[i], 1, address)
  /\ UNCHANGED <<call, snapshot, interfaceName, setupCount, ongoingSessions, procs, lockedYoung,
                 lockedOld, throwCount>>

\* The first getIpAddress settles.  On failure the catch block either starts
\* the fallback getIpAddress(request.addressVersion) or rethrows.
AddressDone(i) ==
  /\ i \in 1..Len(setups)
  /\ setups[i].pc = "awaitAddress"
  /\ \E env \in NetEnvs :
       LET res == getIpAddress(setups[i].addressVersion, interfaceName, env) IN
       IF res.ok THEN Respond(i, res.address)
       ELSE IF interfaceName # ""
         THEN /\ setups' = [setups EXCEPT ![i].pc = "awaitFallback",
                                          ![i].attempts = @ + 1]
              /\ last' = Await
              /\ UNCHANGED <<call, snapshot, interfaceName, setupCount, pendingSessions, ongoingSessions,
                             procs, lockedYoung, lockedOld, throwCount>>
         ELSE Reject(i)

\* A fallback that asks for the configured interface again.
FallbackDoneSameInterface(i) ==
  /\ i \in 1..Len(setups)
  /\ setups[i].pc = "awaitFallback"
  /\ \E env \in NetEnvs :
       LET res == getIpAddress(setups[i].addressVersion, interfaceName, env) IN
       IF res.ok THEN Respond(i, res.address) ELSE Reject(i)

\* The fallback getIpAddress settles; its failure leaves the catch block.
FallbackDone(i) ==
  /\ i \in 1..Len(setups)
  /\ setups[i].pc = "awaitFallback"
  /\ \E env \in NetEnvs :
       LET res == getIpAddress(setups[i].addressVersion, "", env) IN
       IF res.ok THEN Respond(i, res.address) ELSE Reject(i)

\* ---- startStream --------------------------------------------------------
HandlerLast(kind, id) ==
  [NoLast EXCEPT !.kind = kind, !.id = id,
                 !.wasPending = id \in DOMAIN pendingSessions]

\* const sessionInfo = this.pendingSessions[request.sessionID] is undefined
\* for an identifier without a pending entry; building ffmpegVideoStream then
\* reads sessionInfo.videoSSRC and raises a TypeError, before any process is
\* constructed and before either table is written.
startStreamMissing(sessionID) ==
  /\ sessionID \notin DOMAIN pendingSessions
  /\ last' = [HandlerLast("START", sessionID) EXCEPT !.threw = TRUE]
  /\ UNCHANGED <<call, snapshot, interfaceName, setupCount, pendingSessions, ongoingSessions, procs,
                 setups, lockedYoung, lockedOld, throwCount>>

\* A start that keeps the pending entry it promoted.
startStreamKeepsPending(sessionID) ==
  /\ sessionID \in DOMAIN pendingSessions
  /\ procs' = Append(procs,
       NewFfmpegProcess(sessionID, pendingSessions[sessionID].videoReturnPort))
  /\ ongoingSessions' = Put(ongoingSessions, sessionID, Len(procs) + 1)
  /\ last' = [HandlerLast("START", sessionID) EXCEPT !.created = 1]
  /\ UNCHANGED <<call, snapshot, interfaceName, setupCount, pendingSessions, setups, lockedYoung,
                 lockedOld, throwCount>>

\* The process is constructed on the pending entry's videoReturnPort, stored
\* under the identifier (replacing what was stored there) and the pending
\* entry is deleted.
startStreamPending(sessionID) ==
  /\ sessionID \in DOMAIN pendingSessions
  /\ procs' = Append(procs,
       NewFfmpegProcess(sessionID, pendingSessions[sessionID].videoReturnPort))
  /\ ongoingSessions' = Put(ongoingSessions, sessionID, Len(procs) + 1)
  /\ pendingSessions' = DelKey(pendingSessions, sessionID)
  /\ last' = [HandlerLast("START", sessionID) EXCEPT !.created = 1]
  /\ UNCHANGED <<call, snapshot, interfaceName, setupCount, setups, lockedYoung, lockedOld, throwCount>>

startStream(sessionID) ==
  \/ startStreamMissing(sessionID)
  \/ startStreamPending(sessionID)

\* ---- handleStreamRequest ------------------------------------------------
\* A reconfigure that restarts the session by stopping its process.
ReconfigureStops(sessionID) ==
  LET st == stopStream(StopState, sessionID, FALSE) IN
  /\ ongoingSessions' = st.ongoing
  /\ procs' = st.procs
  /\ last' = [HandlerLast("RECONFIGURE", sessionID) EXCEPT !.callbacks = 1]
  /\ UNCHANGED <<call, snapshot, interfaceName, setupCount, pendingSessions, setups, lockedYoung,
                 lockedOld, throwCount>>

\* case RECONFIGURE: log; callback();
Reconfigure(sessionID) ==
  /\ last' = [HandlerLast("RECONFIGURE", sessionID) EXCEPT !.callbacks = 1]
  /\ UNCHANGED <<call, snapshot, interfaceName, setupCount, pendingSessions, ongoingSessions, procs,
                 setups, lockedYoung, lockedOld, throwCount>>

\* The stop() calls of one handler may raise while the budget lasts.
MayRaise(raising) ==
  /\ raising \subseteq KeySet(ongoingSessions)
  /\ throwCount + Cardinality(raising) <= MaxThrows

\* case STOP: this.stopStream(request.sessionID); callback();
Stop(sessionID) ==
  \E raises \in BOOLEAN :
    LET st == stopStream(StopState, sessionID, raises) IN
    /\ raises => MayRaise({sessionID})
    /\ ongoingSessions' = st.ongoing
    /\ procs' = st.procs
    /\ throwCount' = throwCount + st.failed
    /\ last' = [HandlerLast("STOP", sessionID) EXCEPT
                  !.stopped = st.stopped, !.failed = st.failed,
                  !.threw = st.threw,
                  !.callbacks = IF st.threw THEN 0 ELSE 1]
    /\ UNCHANGED <<call, snapshot, interfaceName, setupCount, pendingSessions, setups, lockedYoung, lockedOld>>

handleStreamRequest(type, sessionID) ==
  \/ type = "START" /\ startStream(sessionID)
  \/ type = "RECONFIGURE" /\ Reconfigure(sessionID)
  \/ type = "STOP" /\ Stop(sessionID)

\* ---- api.on(APIEvent.SHUTDOWN, ...) -------------------------------------
Shutdown ==
  \E raising \in SUBSET SessionIDs :
    LET st == ShutdownLoop(Keys(ongoingSessions), StopState, raising) IN
    /\ MayRaise(raising)
    /\ ongoingSessions' = st.ongoing
    /\ procs' = st.procs
    /\ throwCount' = throwCount + st.failed
    /\ last' = [NoLast EXCEPT !.kind = "SHUTDOWN",
                  !.targets = Len(ongoingSessions),
                  !.stopped = st.stopped, !.failed = st.failed,
                  !.threw = st.threw]
    /\ UNCHANGED <<call, snapshot, interfaceName, setupCount, pendingSessions, setups, lockedYoung, lockedOld>>

\* ---- the child's exit (./ffmpeg, not part of the sources at hand) -------
\* A child that exits without having been asked to is reported as abnormal
\* and its session is removed through the delegate's stopStream; a child
\* that exits after stop() only closes its socket.  Nothing reads the
\* session or the port of an exited child again, so they are cleared.
ProcExit(p) ==
  /\ p \in 1..Len(procs)
  /\ procs[p].state # "exited"
  /\ \E raises \in BOOLEAN :
       LET exited == [procs EXCEPT ![p].state = "exited",
                                   ![p].session = 0, ![p].returnPort = 0]
           st == IF procs[p].state = "running"
                   THEN stopStream([StopState EXCEPT !.procs = exited],
                                   procs[p].session, raises)
                   ELSE [StopState EXCEPT !.procs = exited]
       IN
       /\ raises => (procs[p].state = "running" /\ MayRaise({procs[p].session}))
       /\ ongoingSessions' = st.ongoing
       /\ procs' = st.procs
       /\ throwCount' = throwCount + st.failed
       /\ last' = [HandlerLast("EXIT", procs[p].session) EXCEPT
                     !.stopped = st.stopped, !.failed = st.failed]
       /\ UNCHANGED <<call, snapshot, interfaceName, setupCount, pendingSessions, setups, lockedYoung, lockedOld>>

\* ---- the state machine --------------------------------------------------
Init ==
  /\ interfaceName \in {"", "wlan0"}
  /\ pendingSessions = <<>>
  /\ ongoingSessions = <<>>
  /\ procs = <<>>
  /\ setups = <<>>
  /\ setupCount = 0
  /\ lockedYoung = {}
  /\ lockedOld = {}
  /\ throwCount = 0
  /\ last = NoLast
  /\ call = NoCall
  /\ snapshot = NoSnapshot

Next ==
  \/ \E id \in SessionIDs : prepareStream(id)
  \/ \E i \in 1..MaxSetups : VideoPortDone(i)
  \/ \E i \in 1..MaxSetups : AudioPortDone(i)
  \/ \E i \in 1..MaxSetups : AddressDone(i)
  \/ \E i \in 1..MaxSetups : FallbackDone(i)
  \/ \E id \in SessionIDs : handleStreamRequest("START", id)
  \/ \E id \in SessionIDs : handleStreamRequest("RECONFIGURE", id)
  \/ \E id \in SessionIDs : handleStreamRequest("STOP", id)
  \/ Shutdown
  \/ \E p \in 1..MaxSetups : ProcExit(p)
  \/ ReleaseOldLockedPorts

Spec == Init /\ [][Next]_vars

\* ==== What is handed to the transcoder ====================================

\* ---- JavaScript values ---------------------------------------------------
\* A configuration key that is not set reads as undefined.  A command
\* string is kept as the tokens fcmd.split(/\s+/) yields; the empty tuple is
\* the empty (or unset) string.
undefined == "undefined"
null == "null"
undefinedNumber == -1

\* a > b; a comparison with undefined is false.
GreaterThan(a, b) == b # undefinedNumber /\ a > b

\* The conditions `if (n)` and `if (s)` on a number and on a string.
TruthyNumber(n) == n # undefinedNumber /\ n # 0
TruthyString(str) == str # undefined /\ str # ""

\* vf.join(',')
RECURSIVE join(_, _)
join(array, separator) ==
  IF array = <<>> THEN ""
  ELSE IF Len(array) = 1 THEN array[1]
  ELSE array[1] \o separator \o join(Tail(array), separator)

\* Buffer.toString('base64')
Base64Alphabet ==
  <<"A", "B", "C", "D", "E", "F", "G", "H", "I", "J", "K", "L", "M",
    "N", "O", "P", "Q", "R", "S", "T", "U", "V", "W", "X", "Y", "Z",
    "a", "b", "c", "d", "e", "f", "g", "h", "i", "j", "k", "l", "m",
    "n", "o", "p", "q", "r", "s", "t", "u", "v", "w", "x", "y", "z",
    "0", "1", "2", "3", "4", "5", "6", "7", "8", "9", "+", "/">>

Base64Digit(n) == Base64Alphabet[n + 1]

RECURSIVE base64(_)
base64(bytes) ==
  IF Len(bytes) = 0 THEN ""
  ELSE IF Len(bytes) = 1 THEN
    Base64Digit(bytes[1] \div 4) \o Base64Digit((bytes[1] % 4) * 16) \o "=="
  ELSE IF Len(bytes) = 2 THEN
    Base64Digit(bytes[1] \div 4)
      \o Base64Digit((bytes[1] % 4) * 16 + bytes[2] \div 16)
      \o Base64Digit((bytes[2] % 16) * 4) \o "="
  ELSE
    Base64Digit(bytes[1] \div 4)
      \o Base64Digit((bytes[1] % 4) * 16 + bytes[2] \div 16)
      \o Base64Digit((bytes[2] % 16) * 4 + bytes[3] \div 64)
      \o Base64Digit(bytes[3] % 64)
      \o base64(SubSeq(bytes, 4, Len(bytes)))

\* ---- determineResolution -------------------------------------------------
\* The scale directive is computed from the dimensions of the request
\* instead of the clamped ones.
determineResolutionScalesRequest(videoConfig, request) ==
  LET width == IF GreaterThan(request.width, videoConfig.maxWidth)
                 THEN videoConfig.maxWidth ELSE request.width
      height == IF GreaterThan(request.height, videoConfig.maxHeight)
                  THEN videoConfig.maxHeight ELSE request.height
      resolution ==
        CASE videoConfig.preserveRatio = "W" -> ToString(request.width) \o ":-1"
          [] videoConfig.preserveRatio = "H" -> "-1:" \o ToString(request.height)
          [] OTHER -> ToString(request.width) \o ":" \o ToString(request.height)
      configFilter == IF TruthyString(videoConfig.videoFilter)
                        THEN videoConfig.videoFilter ELSE null
      videoFilter == IF configFilter = "" \/ configFilter = null
                       THEN "scale=" \o resolution ELSE configFilter
      vf == IF videoFilter # null /\ videoFilter # "none"
              THEN (IF videoConfig.vflip THEN <<"hflip">> ELSE <<>>)
                     \o (IF videoConfig.hflip THEN <<"vflip">> ELSE <<>>)
                     \o <<videoFilter>>
              ELSE <<>>
  IN [width |-> width, height |-> height, videoFilter |-> join(vf, ",")]

\* The height is compared with, and clamped to, the width cap.
determineResolutionOneCap(videoConfig, request) ==
  LET width == IF GreaterThan(request.width, videoConfig.maxWidth)
                 THEN videoConfig.maxWidth ELSE request.width
      height == IF GreaterThan(request.height, videoConfig.maxWidth)
                  THEN videoConfig.maxWidth ELSE request.height
      resolution ==
        CASE videoConfig.preserveRatio = "W" -> ToString(width) \o ":-1"
          [] videoConfig.preserveRatio = "H" -> "-1:" \o ToString(height)
          [] OTHER -> ToString(width) \o ":" \o ToString(height)
      configFilter == IF TruthyString(videoConfig.videoFilter)
                        THEN videoConfig.videoFilter ELSE null
      videoFilter == IF configFilter = "" \/ configFilter = null
                       THEN "scale=" \o resolution ELSE configFilter
      vf == IF videoFilter # null /\ videoFilter # "none"
              THEN (IF videoConfig.vflip THEN <<"hflip">> ELSE <<>>)
                     \o (IF videoConfig.hflip THEN <<"vflip">> ELSE <<>>)
                     \o <<videoFilter>>
              ELSE <<>>
  IN [width |-> width, height |-> height, videoFilter |-> join(vf, ",")]

\* Each dimension is the request's unless it exceeds the configured cap.
\* The filter is the configured one, or scale=<resolution> when none is
\* configured; unless it is 'none', the list pushed is 'hflip' when
\* videoConfig.vflip is set, then 'vflip' when videoConfig.hflip is set,
\* then the filter.
determineResolution(videoConfig, request) ==
  LET width == IF GreaterThan(request.width, videoConfig.maxWidth)
                 THEN videoConfig.maxWidth ELSE request.width
      height == IF GreaterThan(request.height, videoConfig.maxHeight)
                  THEN videoConfig.maxHeight ELSE request.height
      resolution ==
        CASE videoConfig.preserveRatio = "W" -> ToString(width) \o ":-1"
          [] videoConfig.preserveRatio = "H" -> "-1:" \o ToString(height)
          [] OTHER -> ToString(width) \o ":" \o ToString(height)
      configFilter == IF TruthyString(videoConfig.videoFilter)
                        THEN videoConfig.videoFilter ELSE null
      videoFilter == IF configFilter = "" \/ configFilter = null
                       THEN "scale=" \o resolution ELSE configFilter
      vf == IF videoFilter # null /\ videoFilter # "none"
              THEN (IF videoConfig.vflip THEN <<"hflip">> ELSE <<>>)
                     \o (IF videoConfig.hflip THEN <<"vflip">> ELSE <<>>)
                     \o <<videoFilter>>
              ELSE <<>>
  IN [width |-> width, height |-> height, videoFilter |-> join(vf, ",")]

\* ---- prepareStream: the SessionInfo it records ---------------------------
SessionInfo(request, videoReturnPort, videoSSRC, audioReturnPort, audioSSRC) ==
  [address |-> request.targetAddress,
   videoPort |-> request.video.port,
   videoReturnPort |-> videoReturnPort,
   videoCryptoSuite |-> request.video.srtpCryptoSuite,
   videoSRTP |-> request.video.srtp_key \o request.video.srtp_salt,
   videoSSRC |-> videoSSRC,
   audioPort |-> request.audio.port,
   audioReturnPort |-> audioReturnPort,
   audioCryptoSuite |-> request.audio.srtpCryptoSuite,
   audioSRTP |-> request.audio.srtp_key \o request.audio.srtp_salt,
   audioSSRC |-> audioSSRC]

\* ---- startStream: the command line ---------------------------------------
fps(videoConfig, request) ==
  IF GreaterThan(request.video.fps, videoConfig.maxFPS)
    THEN videoConfig.maxFPS ELSE request.video.fps

videoBitrate(videoConfig, request) ==
  IF TruthyNumber(videoConfig.maxBitrate)
       /\ request.video.max_bit_rate > videoConfig.maxBitrate
    THEN videoConfig.maxBitrate
  ELSE IF TruthyNumber(videoConfig.minBitrate)
       /\ request.video.max_bit_rate < videoConfig.minBitrate
    THEN videoConfig.minBitrate
  ELSE request.video.max_bit_rate

\* The audio bitrate is raised to the configured minimum like the video's.
audioBitrateMinClamped(videoConfig, request) ==
  IF TruthyNumber(videoConfig.maxBitrate)
       /\ request.audio.max_bit_rate > videoConfig.maxBitrate
    THEN videoConfig.maxBitrate
  ELSE IF TruthyNumber(videoConfig.minBitrate)
       /\ request.audio.max_bit_rate < videoConfig.minBitrate
    THEN videoConfig.minBitrate
  ELSE request.audio.max_bit_rate

audioBitrate(videoConfig, request) ==
  IF TruthyNumber(videoConfig.maxBitrate)
       /\ request.audio.max_bit_rate > videoConfig.maxBitrate
    THEN videoConfig.maxBitrate
  ELSE request.audio.max_bit_rate

ffmpegVideoArgs(videoConfig, request) ==
  LET vcodec == IF TruthyString(videoConfig.vcodec)
                  THEN videoConfig.vcodec ELSE "libx264"
      mapvideo == IF TruthyString(videoConfig.mapvideo)
                    THEN videoConfig.mapvideo ELSE "0:0"
      additionalCommandline ==
        IF videoConfig.additionalCommandline # <<>>
          THEN videoConfig.additionalCommandline
          ELSE <<"-preset", "ultrafast", "-tune", "zerolatency">>
      resolution == determineResolution(videoConfig, request.video)
      bitrate == videoBitrate(videoConfig, request)
  IN <<"-map", mapvideo, "-vcodec", vcodec, "-pix_fmt", "yuv420p",
       "-r", ToString(fps(videoConfig, request)), "-f", "rawvideo">>
     \o additionalCommandline
     \o (IF vcodec # "copy" /\ resolution.videoFilter # ""
           THEN <<"-vf", resolution.videoFilter>> ELSE <<>>)
     \o <<"-b:v", ToString(bitrate) \o "k",
          "-bufsize", ToString(2 * bitrate) \o "k",
          "-maxrate", ToString(bitrate) \o "k",
          "-payload_type", ToString(request.video.pt)>>

ffmpegVideoStream(videoConfig, sessionInfo) ==
  LET mtu == IF TruthyNumber(videoConfig.packetSize)
               THEN videoConfig.packetSize ELSE 1316
  IN <<"-ssrc", ToString(sessionInfo.videoSSRC), "-f", "rtp",
       "-srtp_out_suite", "AES_CM_128_HMAC_SHA1_80",
       "-srtp_out_params", base64(sessionInfo.videoSRTP),
       "srtp://" \o sessionInfo.address \o ":" \o ToString(sessionInfo.videoPort)
         \o "?rtcpport=" \o ToString(sessionInfo.videoPort)
         \o "&localrtcpport=" \o ToString(sessionInfo.videoPort)
         \o "&pkt_size=" \o ToString(mtu)>>

ffmpegAudioArgs(videoConfig, request) ==
  LET mapaudio == IF TruthyString(videoConfig.mapaudio)
                    THEN videoConfig.mapaudio ELSE "0:1"
      bitrate == audioBitrate(videoConfig, request)
  IN <<"-map", mapaudio, "-acodec", "libfdk_aac", "-profile:a", "aac_eld",
       "-flags", "+global_header", "-f", "null",
       "-ar", ToString(request.audio.sample_rate) \o "k",
       "-b:a", ToString(bitrate) \o "k",
       "-bufsize", ToString(bitrate) \o "k",
       "-ac", "1", "-payload_type", ToString(request.audio.pt)>>

ffmpegAudioStream(sessionInfo) ==
  <<"-ssrc", ToString(sessionInfo.audioSSRC), "-f", "rtp",
    "-srtp_out_suite", "AES_CM_128_HMAC_SHA1_80",
    "-srtp_out_params", base64(sessionInfo.audioSRTP),
    "srtp://" \o sessionInfo.address \o ":" \o ToString(sessionInfo.audioPort)
      \o "?rtcpport=" \o ToString(sessionInfo.audioPort)
      \o "&localrtcpport=" \o ToString(sessionInfo.audioPort)
      \o "&pkt_size=188">>

\* What startStream computes from the configuration, the request and the
\* pending entry of request.sessionID: the values it clamps, the segments of
\* the command line, and the command line handed to FfmpegProcess.
fcmd(videoConfig, request, sessionInfo) ==
  LET videoArgs == ffmpegVideoArgs(videoConfig, request)
      videoStream == ffmpegVideoStream(videoConfig, sessionInfo)
      audioArgs == IF videoConfig.audio
                     THEN ffmpegAudioArgs(videoConfig, request) ELSE <<>>
      audioStream == IF videoConfig.audio
                       THEN ffmpegAudioStream(sessionInfo) ELSE <<>>
  IN [fps |-> fps(videoConfig, request),
      videoBitrate |-> videoBitrate(videoConfig, request),
      audioBitrate |-> audioBitrate(videoConfig, request),
      ffmpegVideoArgs |-> videoArgs,
      ffmpegVideoStream |-> videoStream,
      ffmpegAudioArgs |-> audioArgs,
      ffmpegAudioStream |-> audioStream,
      fcmd |-> videoConfig.source \o videoArgs \o videoStream
                 \o audioArgs \o audioStream
                 \o (IF videoConfig.debug
                       THEN <<"-loglevel", "level+verbose">> ELSE <<>>)]

\* ---- the inputs ----------------------------------------------------------
DefaultVideoConfig ==
  [source |-> <<"-i", "rtsp://camera/stream">>, stillImageSource |-> <<>>,
   maxWidth |-> undefinedNumber, maxHeight |-> undefinedNumber,
   maxFPS |-> undefinedNumber, maxBitrate |-> undefinedNumber,
   minBitrate |-> undefinedNumber, preserveRatio |-> undefined,
   videoFilter |-> undefined, hflip |-> FALSE, vflip |-> FALSE,
   vcodec |-> undefined, packetSize |-> undefinedNumber,
   mapvideo |-> undefined, mapaudio |-> undefined,
   additionalCommandline |-> <<>>, audio |-> FALSE, debug |-> FALSE]

\* Configurations and requests over which determineResolution is applied.
ResolutionConfigs ==
  {[DefaultVideoConfig EXCEPT !.maxWidth = mw, !.maxHeight = mh,
                              !.preserveRatio = pr, !.videoFilter = filter,
                              !.hflip = hf, !.vflip = vf] :
     mw \in {undefinedNumber, 0, 640, 1280},
     mh \in {undefinedNumber, 480, 720},
     pr \in {undefined, "W", "H"},
     filter \in {undefined, "", "none", "crop=320:240:0:0"},
     hf \in BOOLEAN, vf \in BOOLEAN}

ResolutionRequests ==
  [width : {320, 640, 1920}, height : {240, 480, 1080}]

\* Configurations and requests over which the rates of startStream vary.
RateConfigs ==
  {[DefaultVideoConfig EXCEPT !.maxFPS = mf, !.maxBitrate = maxb,
                              !.minBitrate = minb, !.audio = au,
                              !.maxWidth = 640, !.maxHeight = 480] :
     mf \in {undefinedNumber, 15, 30},
     maxb \in {undefinedNumber, 0, 20, 300, 2000},
     minb \in {undefinedNumber, 0, 500},
     au \in BOOLEAN}

StartRequest(sessionID, videoFps, videoRate, audioRate) ==
  [sessionID |-> sessionID,
   video |-> [width |-> 1280, height |-> 720, fps |-> videoFps,
              max_bit_rate |-> videoRate, pt |-> 99],
   audio |-> [max_bit_rate |-> audioRate, sample_rate |-> 16, pt |-> 110]]

RateRequests ==
  {StartRequest(1, f, v, a) : f \in {10, 30}, v \in {100, 299, 4000}, a \in {16, 24}}

\* Setup requests of one session, and the SessionInfo prepareStream records
\* for each; the synchronisation sources are the numbers hap generates.
\* request.video.srtpCryptoSuite is what the controller names; the delegate
\* advertises the first of these only.
CryptoSuites == {"AES_CM_128_HMAC_SHA1_80", "AES_CM_256_HMAC_SHA1_80"}

PrepareRequests(sessionID) ==
  {[sessionID |-> sessionID,
    targetAddress |-> "192.168.1." \o ToString(sessionID),
    video |-> [port |-> 50000 + sessionID, srtpCryptoSuite |-> vs,
               srtp_key |-> <<sessionID, k>>, srtp_salt |-> <<255>>],
    audio |-> [port |-> 51000 + sessionID, srtpCryptoSuite |-> as,
               srtp_key |-> <<k, sessionID, 128>>, srtp_salt |-> <<7>>]] :
     vs \in CryptoSuites, as \in CryptoSuites, k \in {16, 250}}

SessionInfos(sessionID) ==
  {SessionInfo(request, 1, ssrc, 2, ssrc + 1) :
     request \in PrepareRequests(sessionID),
     ssrc \in {1000 * sessionID, 1000 * sessionID + 500}}

DefaultSessionInfo == CHOOSE sessionInfo \in SessionInfos(1) : TRUE

PendingTables ==
  {[id \in SessionIDs |-> IF id = 1 THEN first ELSE other] :
     first \in SessionInfos(1), other \in SessionInfos(2)}

\* ---- the functions applied -----------------------------------------------
delegateVars == <<interfaceName, pendingSessions, ongoingSessions, procs, setups,
                  setupCount, lockedYoung, lockedOld, throwCount, last>>

\* A call that has not returned yet, and the pending table of the delegate
\* it is made on: the function, the configuration of the delegate and the
\* request.
Call(fn, videoConfig, request, pending) ==
  [call |-> [fn |-> fn, videoConfig |-> videoConfig, request |-> request,
             returned |-> FALSE, threw |-> FALSE, result |-> <<>>],
   pendingSessions |-> pending]

SnapshotConfigs ==
  {[DefaultVideoConfig EXCEPT !.stillImageSource = still, !.maxWidth = 640,
                              !.videoFilter = filter] :
     still \in {<<>>, <<"-i", "http://camera/still.jpg">>},
     filter \in {undefined, "none"}}

SnapshotRequests == [width : {320, 1920}, height : {240}]

Calls ==
  {Call("determineResolution", videoConfig, request, <<>>) :
     videoConfig \in ResolutionConfigs, request \in ResolutionRequests}
  \cup
  {Call("startStream", videoConfig, request, [id \in SessionIDs |-> sessionInfo]) :
     videoConfig \in RateConfigs, request \in RateRequests,
     sessionInfo \in {DefaultSessionInfo}}
  \cup
  {Call("startStream", [DefaultVideoConfig EXCEPT !.audio = audio],
        StartRequest(id, 30, 299, 24), pending) :
     audio \in BOOLEAN, id \in SessionIDs, pending \in PendingTables}
  \cup
  {Call("startStream", DefaultVideoConfig, StartRequest(id, 30, 299, 24),
        DelKey(pending, id)) :
     id \in SessionIDs, pending \in PendingTables}
  \cup
  {Call("handleSnapshotRequest", videoConfig, request, <<>>) :
     videoConfig \in SnapshotConfigs, request \in SnapshotRequests}

DetermineResolution ==
  /\ call.fn = "determineResolution"
  /\ ~call.returned
  /\ call' = [call EXCEPT !.returned = TRUE,
                          !.result = determineResolution(call.videoConfig, call.request)]
  /\ UNCHANGED <<snapshot, delegateVars>>

\* startStream: sessionInfo is the entry of request.sessionID in
\* pendingSessions.  Without one, reading sessionInfo.videoSSRC raises a
\* TypeError and nothing is written.  With one, the command line is built,
\* the process is constructed on sessionInfo.videoReturnPort and stored in
\* ongoingSessions, and the pending entry is deleted.
StartStreamCommand ==
  /\ call.fn = "startStream"
  /\ ~call.returned
  /\ IF call.request.sessionID \in DOMAIN pendingSessions
       THEN /\ call' = [call EXCEPT
                          !.returned = TRUE,
                          !.result = fcmd(call.videoConfig, call.request,
                                          pendingSessions[call.request.sessionID])]
            /\ procs' = Append(procs,
                 NewFfmpegProcess(call.request.sessionID,
                   pendingSessions[call.request.sessionID].videoReturnPort))
            /\ ongoingSessions' =
                 Put(ongoingSessions, call.request.sessionID, Len(procs) + 1)
            /\ pendingSessions' = DelKey(pendingSessions, call.request.sessionID)
            /\ last' = [HandlerLast("START", call.request.sessionID) EXCEPT
                          !.created = 1]
       ELSE /\ call' = [call EXCEPT !.returned = TRUE, !.threw = TRUE]
            /\ last' = [HandlerLast("START", call.request.sessionID) EXCEPT
                          !.threw = TRUE]
            /\ UNCHANGED <<pendingSessions, ongoingSessions, procs>>
  /\ UNCHANGED <<snapshot, interfaceName, setups, setupCount, lockedYoung,
                 lockedOld, throwCount>>

\* ---- handleSnapshotRequest -----------------------------------------------
\* The command is built and the child spawned.  spawn either raises, and
\* the catch block calls callback(err), or returns the child, on which the
\* 'data', 'error' and 'close' listeners are registered.
handleSnapshotRequest ==
  /\ call.fn = "handleSnapshotRequest"
  /\ ~call.returned
  /\ \E raises \in BOOLEAN :
       LET resolution == determineResolution(call.videoConfig, call.request)
           command ==
             (IF call.videoConfig.stillImageSource # <<>>
                THEN call.videoConfig.stillImageSource
                ELSE call.videoConfig.source)
             \o <<"-frames:v", "1">>
             \o (IF resolution.videoFilter # ""
                   THEN <<"-vf", resolution.videoFilter>> ELSE <<>>)
             \o <<"-f", "image2", "-">>
       IN snapshot' =
            IF raises
              THEN [NoSnapshot EXCEPT !.pc = "done", !.fcmd = command,
                                      !.callbacks = 1, !.result = "error"]
              ELSE [NoSnapshot EXCEPT !.pc = "spawned", !.fcmd = command]
  /\ call' = [call EXCEPT !.returned = TRUE]
  /\ UNCHANGED delegateVars

\* ffmpeg.stdout.on('data', ...): the chunk is appended to imageBuffer.
SnapshotData ==
  /\ snapshot.pc = "spawned"
  /\ ~snapshot.errored
  /\ Len(snapshot.imageBuffer) < MaxChunks
  /\ snapshot' = [snapshot EXCEPT !.imageBuffer = @ \o <<255 - Len(@)>>]
  /\ UNCHANGED <<call, delegateVars>>

\* ffmpeg.on('error', ...): the child could not be started; the listener
\* logs the error.
SnapshotError ==
  /\ snapshot.pc = "spawned"
  /\ ~snapshot.errored
  /\ snapshot.imageBuffer = <<>>
  /\ snapshot' = [snapshot EXCEPT !.errored = TRUE]
  /\ UNCHANGED <<call, delegateVars>>

\* ffmpeg.on('close', ...): callback(undefined, imageBuffer), whatever the
\* child's exit code and whether or not 'error' was emitted before.
SnapshotClose ==
  /\ snapshot.pc = "spawned"
  /\ \E code \in {0, 1} :
       /\ snapshot.errored => code # 0
       /\ snapshot' = [snapshot EXCEPT !.pc = "done", !.exitCode = code,
                                       !.callbacks = @ + 1, !.result = "image",
                                       !.image = snapshot.imageBuffer]
  /\ UNCHANGED <<call, delegateVars>>

\* One call per behaviour, drawn at the start together with the pending
\* table of the delegate; no session is ongoing.
InitCommands ==
  /\ interfaceName = ""
  /\ \E c \in Calls :
       /\ call = c.call
       /\ pendingSessions = c.pendingSessions
  /\ ongoingSessions = <<>>
  /\ procs = <<>>
  /\ setups = <<>>
  /\ setupCount = 0
  /\ lockedYoung = {}
  /\ lockedOld = {}
  /\ throwCount = 0
  /\ last = NoLast
  /\ snapshot = NoSnapshot

NextCommands ==
  \/ DetermineResolution
  \/ StartStreamCommand
  \/ handleSnapshotRequest
  \/ SnapshotData
  \/ SnapshotError
  \/ SnapshotClose

SpecCommands == InitCommands /\ [][NextCommands]_vars

\* ==== Claims ==============================================================

\* C1: in every reachable state no session identifier has an entry in both
\* pendingSessions and ongoingSessions.
C1_NeverInBothTables ==
  \A id \in SessionIDs :
    ~(id \in DOMAIN pendingSessions /\ Has(ongoingSessions, id))

\* C2: when a STOP request for an identifier has been handled, the identifier
\* has an entry in neither pendingSessions nor ongoingSessions.
C2_StopRemovesFromBothTables ==
  last.kind = "STOP" =>
    /\ last.id \notin DOMAIN pendingSessions
    /\ ~Has(ongoingSessions, last.id)

\* C3: a START request for an identifier without a pending entry raises no
\* exception, constructs no process and leaves both tables as they were.
C3_StartWithoutPendingIsHarmless ==
  [][(last'.kind = "START" /\ ~last'.wasPending) =>
       /\ ~last'.threw
       /\ last'.created = 0
       /\ pendingSessions' = pendingSessions
       /\ ongoingSessions' = ongoingSessions]_vars

\* C4: when the shutdown handler has run, every process a START constructed
\* has had stop() invoked on it or has exited: none is left running unstopped.
C4_ShutdownLeavesNoOrphan ==
  last.kind = "SHUTDOWN" =>
    \A p \in 1..Len(procs) :
      procs[p].state = "exited" \/ procs[p].stopCalls >= 1

\* C5: when the shutdown handler has run ongoingSessions is empty, and a
\* shutdown handler that runs right after another changes no table and
\* invokes stop() on no process.
C5_ShutdownEmptiesAndIsIdempotent ==
  [][last'.kind = "SHUTDOWN" =>
       /\ ongoingSessions' = <<>>
       /\ last.kind = "SHUTDOWN" =>
            /\ ongoingSessions' = ongoingSessions
            /\ pendingSessions' = pendingSessions
            /\ last'.stopped = 0]_vars

\* C6: no STOP request raises, and stop() is invoked at most once on any one
\* process.
C6_StopIsIdempotent ==
  /\ last.kind = "STOP" => (~last.threw /\ last.callbacks = 1)
  /\ \A p \in 1..Len(procs) : procs[p].stopCalls <= 1

\* C7: the shutdown handler lets no exception out, and it invokes stop() for
\* every session that was ongoing when it began, also when one of those
\* stop() calls raises.
C7_ShutdownSwallowsStopErrors ==
  last.kind = "SHUTDOWN" =>
    /\ ~last.threw
    /\ last.stopped = last.targets

\* C7 witness: a shutdown over two ongoing sessions in which a stop() raised.
C7_Witness ==
  /\ last.kind = "SHUTDOWN"
  /\ last.targets >= 2
  /\ last.failed >= 1
  /\ last.stopped >= 2

\* The return ports the program holds for one identifier: those of its
\* pending entry and the one its ongoing process listens on.
HeldPorts(id) ==
  (IF id \in DOMAIN pendingSessions
     THEN {pendingSessions[id].videoReturnPort, pendingSessions[id].audioReturnPort}
     ELSE {})
  \cup
  (IF Has(ongoingSessions, id) /\ procs[Get(ongoingSessions, id)].state # "exited"
     THEN {procs[Get(ongoingSessions, id)].returnPort}
     ELSE {})

\* C8: two sessions that are pending or ongoing at the same time hold
\* disjoint return ports, and a pending session's video and audio return
\* ports differ.
C8_PortsAreExclusive ==
  /\ \A a, b \in SessionIDs : a # b => HeldPorts(a) \cap HeldPorts(b) = {}
  /\ \A id \in DOMAIN pendingSessions :
       pendingSessions[id].videoReturnPort # pendingSessions[id].audioReturnPort

\* C9: every setup request that has ended has had its callback invoked
\* exactly once, whether it ended with a response or with a failure.
C9_SetupCallbackExactlyOnce ==
  last.kind = "SETUP" => last.callbacks = 1

\* The external addresses the system default interface has in some
\* network environment.
DefaultInterfaceAddresses ==
  UNION {IF env.default \in DOMAIN env.interfaces
           THEN {env.interfaces[env.default][j].address :
                   j \in {k \in 1..Len(env.interfaces[env.default]) :
                            ~env.interfaces[env.default][k].internal}}
           ELSE {} : env \in NetEnvs}

\* C10: a setup makes a second address resolution only when an interface is
\* configured and the first one failed, never a third; a response sent after
\* the second carries an address of the system default interface; a setup
\* fails on address resolution only after one attempt with no interface
\* configured or after two with one configured; and a failing setup leaves
\* pendingSessions and ongoingSessions as they were.
C10_AddressFallback ==
  [][last'.kind = "SETUP" =>
       /\ last'.attempts <= 2
       /\ last'.attempts = 2 => interfaceName # ""
       /\ (last'.attempts = 2 /\ ~last'.rejected) =>
            last'.address \in DefaultInterfaceAddresses
       /\ (last'.rejected /\ last'.attempts >= 1) =>
            last'.attempts = (IF interfaceName = "" THEN 1 ELSE 2)
       /\ last'.rejected =>
            /\ pendingSessions' = pendingSessions
            /\ ongoingSessions' = ongoingSessions
       /\ ~last'.rejected => last'.id \in DOMAIN pendingSessions']_vars

\* C10 witness: a setup answered with the address found by the fallback
\* while some session is already pending.
C10_Witness ==
  /\ last.kind = "SETUP"
  /\ last.attempts = 2
  /\ last.callbacks = 1
  /\ last.address \in DefaultInterfaceAddresses

\* C11: a RECONFIGURE request is acknowledged, its callback invoked exactly
\* once and nothing raised, and it leaves pendingSessions, ongoingSessions
\* and every transcoding process as they were, whether the identifier is
\* absent, pending or ongoing.
C11_ReconfigureHasNoEffect ==
  [][last'.kind = "RECONFIGURE" =>
       /\ last'.callbacks = 1
       /\ ~last'.threw
       /\ pendingSessions' = pendingSessions
       /\ ongoingSessions' = ongoingSessions
       /\ procs' = procs]_vars

\* C11 witness: a RECONFIGURE was acknowledged for an identifier whose
\* process is running, while another identifier is pending.
C11_Witness ==
  /\ last.kind = "RECONFIGURE"
  /\ last.callbacks = 1
  /\ Has(ongoingSessions, last.id)
  /\ procs[Get(ongoingSessions, last.id)].state = "running"
  /\ \E id \in DOMAIN pendingSessions : id # last.id

\* C12: a START for an identifier with a pending entry leaves it with an
\* entry in ongoingSessions and none in pendingSessions, creates exactly one
\* process, on that pending entry's return port, and leaves the entries of
\* every other identifier in both tables as they were.
C12_StartPromotesPending ==
  [][(last'.kind = "START" /\ last'.wasPending) =>
       /\ Has(ongoingSessions', last'.id)
       /\ last'.id \notin DOMAIN pendingSessions'
       /\ last'.created = 1
       /\ Len(procs') = Len(procs) + 1
       /\ Get(ongoingSessions', last'.id) = Len(procs')
       /\ procs'[Len(procs')].session = last'.id
       /\ procs'[Len(procs')].state = "running"
       /\ procs'[Len(procs')].returnPort =
            pendingSessions[last'.id].videoReturnPort
       /\ \A p \in 1..Len(procs) : procs'[p] = procs[p]
       /\ \A id \in SessionIDs \ {last'.id} :
            /\ (id \in DOMAIN pendingSessions') = (id \in DOMAIN pendingSessions)
            /\ id \in DOMAIN pendingSessions =>
                 pendingSessions'[id] = pendingSessions[id]
            /\ Has(ongoingSessions', id) = Has(ongoingSessions, id)
            /\ Has(ongoingSessions, id) =>
                 Get(ongoingSessions', id) = Get(ongoingSessions, id)]_vars

\* C12 witness: a START promoted a pending identifier while another
\* identifier is ongoing and its process still runs.
C12_Witness ==
  /\ last.kind = "START"
  /\ last.wasPending
  /\ last.created = 1
  /\ Has(ongoingSessions, last.id)
  /\ \E id \in SessionIDs \ {last.id} :
       /\ Has(ongoingSessions, id)
       /\ procs[Get(ongoingSessions, id)].state = "running"

\* ---- claims about SpecCommands -------------------------------------------
Min(a, b) == IF a < b THEN a ELSE b

\* The token that follows the first occurrence of a flag in a command.
After(command, flag) ==
  command[1 + CHOOSE i \in 1..(Len(command) - 1) :
                /\ command[i] = flag
                /\ \A j \in 1..(i - 1) : command[j] # flag]

\* The scale-or-custom directive for a configuration and negotiated
\* dimensions: the configured filter, or the scale directive of the aspect
\* mode when the filter is the empty string or not set.
BaseFilter(videoConfig, width, height) ==
  IF videoConfig.videoFilter \notin {undefined, ""}
    THEN videoConfig.videoFilter
  ELSE IF videoConfig.preserveRatio = "W"
    THEN "scale=" \o ToString(width) \o ":-1"
  ELSE IF videoConfig.preserveRatio = "H"
    THEN "scale=-1:" \o ToString(height)
  ELSE "scale=" \o ToString(width) \o ":" \o ToString(height)

ResolutionReturned == call.fn = "determineResolution" /\ call.returned
StartReturned == call.fn = "startStream" /\ call.returned /\ ~call.threw

\* C13: whenever determineResolution emits a filter, the list is 'hflip' if
\* and only if the hflip flag is set, then 'vflip' if and only if the vflip
\* flag is set, then the scale-or-custom directive.
C13_FlipDirectives ==
  (ResolutionReturned /\ call.videoConfig.videoFilter # "none") =>
    call.result.videoFilter =
      (IF call.videoConfig.hflip THEN "hflip," ELSE "")
        \o (IF call.videoConfig.vflip THEN "vflip," ELSE "")
        \o BaseFilter(call.videoConfig, call.result.width, call.result.height)

\* The flip directives that may precede the base filter.
FlipPrefixes == {"", "hflip,", "vflip,", "hflip,vflip,"}

\* C14: the filter override 'none' yields an empty videoFilter; any other
\* non-empty override is the last directive, verbatim; an empty or unset
\* override makes the last directive scale=<width>:-1 when width-locked,
\* scale=-1:<height> when height-locked and scale=<width>:<height>
\* otherwise, of the negotiated (clamped) dimensions.
C14_BaseFilterSelection ==
  ResolutionReturned =>
    /\ call.videoConfig.videoFilter = "none" => call.result.videoFilter = ""
    /\ call.videoConfig.videoFilter # "none" =>
         \E flips \in FlipPrefixes :
           call.result.videoFilter =
             flips \o BaseFilter(call.videoConfig, call.result.width,
                                 call.result.height)

\* C14 witness: a width-locked configuration without a filter override got
\* a request wider than the cap and answered scale=640:-1.
C14_Witness ==
  /\ ResolutionReturned
  /\ call.videoConfig.preserveRatio = "W"
  /\ call.videoConfig.videoFilter = ""
  /\ ~call.videoConfig.hflip /\ ~call.videoConfig.vflip
  /\ call.videoConfig.maxWidth = 640
  /\ call.request.width = 1920
  /\ call.result.videoFilter = "scale=640:-1"

\* C15: with caps configured, the negotiated width is min(requested width,
\* maxWidth), the negotiated height is min(requested height, maxHeight), and
\* the frame rate on the command line of startStream is min(requested fps,
\* maxFPS).
C15_CapClamping ==
  /\ ResolutionReturned =>
       /\ call.videoConfig.maxWidth # undefinedNumber =>
            call.result.width = Min(call.request.width, call.videoConfig.maxWidth)
       /\ call.videoConfig.maxHeight # undefinedNumber =>
            call.result.height = Min(call.request.height, call.videoConfig.maxHeight)
  /\ (StartReturned /\ call.videoConfig.maxFPS # undefinedNumber) =>
         /\ call.result.fps = Min(call.request.video.fps, call.videoConfig.maxFPS)
         /\ After(call.result.fcmd, "-r") = ToString(call.result.fps)

\* C15 witness: a request exceeding the width cap and within the height cap
\* was answered with the cap and the requested height.
C15_Witness ==
  /\ ResolutionReturned
  /\ call.videoConfig.maxWidth = 640
  /\ call.videoConfig.maxHeight = 720
  /\ call.request = [width |-> 1920, height |-> 480]
  /\ call.result.width = 640
  /\ call.result.height = 480

\* The effective rates the claim C16 describes, where IsSet says which
\* values of maxBitrate and minBitrate count as set.
BitrateClamp(IsSet(_)) ==
  StartReturned =>
    LET max == call.videoConfig.maxBitrate
        min == call.videoConfig.minBitrate
        video == call.request.video.max_bit_rate
        audio == call.request.audio.max_bit_rate
    IN /\ ((IsSet(max) /\ IsSet(min)) => min <= max) =>
            /\ call.result.videoBitrate =
                 (IF IsSet(max) /\ video > max THEN max
                  ELSE IF IsSet(min) /\ video < min THEN min
                  ELSE video)
            /\ After(call.result.ffmpegVideoArgs, "-b:v") =
                 ToString(call.result.videoBitrate) \o "k"
       /\ IsSet(max) => call.result.audioBitrate = Min(audio, max)
       /\ call.result.audioBitrate <= audio
       /\ call.videoConfig.audio =>
            After(call.result.ffmpegAudioArgs, "-b:a") =
              ToString(call.result.audioBitrate) \o "k"

IsDefined(n) == n # undefinedNumber
IsNonZero(n) == n # undefinedNumber /\ n # 0

\* C16 as stated: for every configuration with minBitrate <= maxBitrate when
\* both are set, the video bitrate is the request clamped down to a set
\* maxBitrate it exceeds, clamped up to a set minBitrate it is below, and
\* unchanged otherwise; the audio bitrate is min(requested, maxBitrate) when
\* a max is set and never above the request.  Every configured number
\* counts as set.
C16_BitrateClampAsStated == BitrateClamp(IsDefined)

\* C16, amended: the same with a maxBitrate or minBitrate of 0 counting as
\* not set.
C16_BitrateClamp == BitrateClamp(IsNonZero)

\* C16 witness: a video request below the configured minimum was raised to
\* it while the audio request, also below it, was left as requested.
C16_Witness ==
  /\ StartReturned
  /\ call.videoConfig.minBitrate = 500
  /\ call.videoConfig.maxBitrate = 2000
  /\ call.request.video.max_bit_rate = 100
  /\ call.result.videoBitrate = 500
  /\ call.result.audioBitrate = call.request.audio.max_bit_rate

\* C17: the value following -srtp_out_suite in the video (audio) segment
\* built by START is the videoCryptoSuite (audioCryptoSuite) recorded in the
\* session's SessionInfo, and the key material and SSRC of the segment are
\* that session's.
C17_NegotiatedCryptoSuite ==
  [][(/\ call.fn = "startStream"
      /\ ~call.returned
      /\ call'.returned
      /\ ~call'.threw) =>
       LET sessionInfo == pendingSessions[call.request.sessionID] IN
       /\ After(call'.result.ffmpegVideoStream, "-srtp_out_suite") =
            sessionInfo.videoCryptoSuite
       /\ After(call'.result.ffmpegVideoStream, "-srtp_out_params") =
            base64(sessionInfo.videoSRTP)
       /\ After(call'.result.ffmpegVideoStream, "-ssrc") =
            ToString(sessionInfo.videoSSRC)
       /\ call.videoConfig.audio =>
            /\ After(call'.result.ffmpegAudioStream, "-srtp_out_suite") =
                 sessionInfo.audioCryptoSuite
            /\ After(call'.result.ffmpegAudioStream, "-srtp_out_params") =
                 base64(sessionInfo.audioSRTP)
            /\ After(call'.result.ffmpegAudioStream, "-ssrc") =
                 ToString(sessionInfo.audioSSRC)]_vars

\* The capture process succeeded: it was started and exited with code 0.
CaptureSucceeded == ~snapshot.errored /\ snapshot.exitCode = 0

\* C18: when a snapshot request has ended, its callback has been invoked
\* exactly once: with the image bytes when the capture process succeeded,
\* with a failure when it could not be started or failed.
C18_SnapshotReportsFailure ==
  snapshot.pc = "done" =>
    /\ snapshot.callbacks = 1
    /\ IF snapshot.result = "image"
         THEN CaptureSucceeded /\ snapshot.image = snapshot.imageBuffer
         ELSE snapshot.result = "error"

\* ---- claims about Spec, continued ----------------------------------------
\* C19: when stop() raises during stopStream, reached from a STOP request or
\* from shutdown, the entry is removed from ongoingSessions all the same:
\* after such a STOP the identifier has no ongoing entry, and after such a
\* shutdown every entry stop() was invoked for is gone.
C19_EntryRemovedWhenStopRaises ==
  /\ (last.kind = "STOP" /\ last.failed > 0) =>
       ~Has(ongoingSessions, last.id)
  /\ (last.kind = "SHUTDOWN" /\ last.failed > 0) =>
       Len(ongoingSessions) = last.targets - last.stopped

\* C20: when a STOP for an identifier, or a shutdown, is handled while a
\* prepareStream for the identifier is suspended, and that prepareStream
\* then finishes, the identifier has an entry in neither pendingSessions nor
\* ongoingSessions.
C20_StopDuringSetupLeavesNoStaleEntry ==
  [][(/\ last.kind \in {"STOP", "SHUTDOWN"}
      /\ last.kind = "STOP" => last.id = last'.id
      /\ last'.kind = "SETUP") =>
       /\ last'.id \notin DOMAIN pendingSessions'
       /\ ~Has(ongoingSessions', last'.id)]_vars

====
